---- MODULE Spec2Model ----
(***************************************************************************)
(* A model of stonexgps/read_files.py: the three functions of the module,  *)
(*   read_RTKLIB_pos, read_stonex_link_file, extract_point_from_trajectory *)
(* each as a state machine over its own locals.  One behaviour is one call *)
(* of one of the three functions (variable call).                          *)
(*                                                                         *)
(* Text is modelled by what the code reads of it: a line of a .pos file is *)
(* its first character (c0), the marker substrings it contains (marks) and *)
(* its whitespace split (ele); a line of the link file is its split on the *)
(* separator.  Numbers written with a decimal point are kept in tenths.    *)
(* Timestamps are seconds since 1980-01-06T00:00:00.                       *)
(***************************************************************************)
EXTENDS Integers, Sequences, FiniteSets, TLC

VARIABLES
    call,        \* the function being executed
    pc,          \* position in that function
    result,      \* "running", "ok", "None", or the class of the exception raised
    exc_arg,     \* the argument of the raised exception ("" when none)
    log,         \* the messages passed to logging.error, in order
    \* ---- read_RTKLIB_pos
    env,         \* the class of files the call is run on ("any" or "wf")
    file,        \* the lines f.readline() has returned so far
    eof,         \* f.readline() has returned ""
    ln,          \* the local ln
    bound,       \* the names among the header locals that are bound
    loc,         \* the values of the header locals
    ep,          \* the local ep
    data,        \* the dict data: a function from its keys to its rows
    df,          \* the returned (df, metadata), or NoFrame
    \* ---- read_stonex_link_file
    lines,       \* f.readlines()
    li,          \* the loop index i
    ldata,       \* the dict data, as a sequence
    link_df,     \* the returned frame, as a sequence of rows
    \* ---- extract_point_from_trajectory
    trajectory,  \* argument: rows with datetime_UTC, Q, lat
    points,      \* argument: rows with point, start_UTC, end_UTC
    only_fixed,  \* argument
    stonex,      \* the module global stonex: its "point" column, or Undefined
    xi,          \* the loop index i
    out          \* the dict out, as a sequence

vars == <<call, pc, result, exc_arg, log, env, file, eof, ln, bound, loc, ep, data, df,
          lines, li, ldata, link_df, trajectory, points, only_fixed, stonex, xi, out>>

posVars  == <<env, file, eof, ln, bound, loc, ep, data, df>>
linkVars == <<lines, li, ldata, link_df>>
extVars  == <<trajectory, points, only_fixed, stonex, xi, out>>

\* ------------------------------------------------------------------ bounds
MaxLines == 5      \* lines of a .pos file of class "any"
MaxBody == 3       \* body lines of a .pos file of class "wf"
MaxLinkLines == 2  \* lines of a link file
MaxFields == 12    \* fields of a link-file line
MaxTraj == 3       \* epochs of a trajectory passed to the aggregator
MaxPoints == 2     \* entries of an occupation table passed to the aggregator

\* --------------------------------------------------------- program constants
LeapSeconds == 18

\* ------------------------------------------------------------ python helpers
Min(a, b) == IF a < b THEN a ELSE b

\* s[a:b] for 0 <= a <= b, on a 1-based sequence
Slice(s, a, b) == SubSeq(s, a + 1, Min(b, Len(s)))

Range(s) == {s[k] : k \in 1..Len(s)}

\* int(x) succeeds
IsInt(tok) == tok \in {"1", "2", "5"}

int(tok) == CASE tok = "1" -> 1 [] tok = "2" -> 2 [] tok = "5" -> 5 [] OTHER -> 0

\* float(x) succeeds
IsFloat_any(tok) == TRUE

IsFloat(tok) == tok \in {"1", "2", "5", "1.0", "45.5", "0.5"}

\* float(x), in tenths
float(tok) ==
    CASE tok = "1" -> 10 [] tok = "2" -> 20 [] tok = "5" -> 50
      [] tok = "1.0" -> 10 [] tok = "45.5" -> 455 [] tok = "0.5" -> 5
      [] OTHER -> 0

\* ------------------------------------------------------ the lines of a .pos
Line(c, m, e) == [c0 |-> c, marks |-> m, ele |-> e]

\* what f.readline() returns at the end of the file: ""
EofLine == Line("", {}, <<>>)

Prog == Line("%", {}, <<"%", "program", ":", "RTKLIB">>)

ObsStart(fmt) ==
    Line("%", {"obs start"},
         <<"%", "obs", "start", ":", "1980/01/06", "00:00:20.0", fmt, "(week0", "20.0s)">>)

\* an "obs start" line cut after the time: ele[6] does not exist
ObsStartShort ==
    Line("%", {"obs start"}, <<"%", "obs", "start", ":", "1980/01/06", "00:00:20.0">>)

ObsEnd ==
    Line("%", {"obs end"},
         <<"%", "obs", "end", ":", "1980/01/06", "00:00:22.0", "GPST", "(week0", "22.0s)">>)

\* a line that carries the text of two markers: "% obs end ... x-ecef(m)"
ObsEndXYZ ==
    Line("%", {"obs end", "x-ecef(m)"},
         <<"%", "obs", "end", ":", "1980/01/06", "00:00:22.0", "x-ecef(m)">>)

RefPos == Line("%", {"ref pos"}, <<"%", "ref", "pos", ":", "45.5", "1.0", "1">>)

RefPosBad == Line("%", {"ref pos"}, <<"%", "ref", "pos", ":", "abc", "1.0", "1">>)

LLHHeader ==
    Line("%", {"latitude(deg)"}, <<"%", "GPST", "latitude(deg)", "longitude(deg)", "height(m)">>)

XYZHeader ==
    Line("%", {"x-ecef(m)"}, <<"%", "GPST", "x-ecef(m)", "y-ecef(m)", "z-ecef(m)">>)

\* date time lat lon h Q ns sdn sde sdu sdne sdeu sdun age ratio
DataEle(ymd, hms, lat, Q) ==
    <<ymd, hms, lat, "1.0", "1", Q, "5", "0.5", "0.5", "1.0", "0.5", "0.5", "0.5", "1.0", "2">>

DataLine(ymd, hms, lat, Q) == Line("1", {}, DataEle(ymd, hms, lat, Q))

D1 == DataLine("1980/01/06", "00:00:20.0", "45.5", "1")
D2 == DataLine("1980/01/06", "00:00:21.0", "0.5", "2")

Blank == Line("\n", {}, <<>>)                         \* "\n"
WsOnly == Line(" ", {}, <<>>)                         \* "   \n"
Short == Line("1", {}, Slice(D1.ele, 0, 14))          \* 14 fields
Long == Line("1", {}, Append(D1.ele, "9.9"))          \* 16 fields
BadNum == DataLine("1980/01/06", "00:00:20.0", "abc", "1")
FloatQ == DataLine("1980/01/06", "00:00:20.0", "45.5", "1.0")
BadDate == DataLine("abc", "00:00:20.0", "45.5", "1")
NoFrac == DataLine("1980/01/06", "00:00:23", "45.5", "1")  \* no ".%f" part

\* The first line is never examined: four representatives of it.
FirstLines == {Prog, ObsStart("GPST"), LLHHeader, XYZHeader}

HdrLines ==
    {Prog, ObsStart("GPST"), ObsStart("UTC"), ObsStartShort, ObsEnd, ObsEndXYZ,
     RefPos, RefPosBad, LLHHeader, XYZHeader, D1, Blank}

BodyLines == {D1, D2, Prog, Blank, WsOnly, Short, Long, BadNum, FloatQ, BadDate, NoFrac}

\* The header RTKLIB writes, line by line (class "wf").
WfHeader ==
    << {Prog}, {ObsStart("GPST"), ObsStart("UTC")}, {ObsEnd}, {RefPos}, {LLHHeader} >>

\* the lines the n-th line of a file of class e is drawn from
Input(e, n) ==
    IF e = "any"
    THEN IF n > MaxLines THEN {} ELSE IF n = 1 THEN FirstLines ELSE HdrLines
    ELSE IF n <= Len(WfHeader) THEN WfHeader[n]
         ELSE IF n <= Len(WfHeader) + MaxBody THEN BodyLines ELSE {}

\* a file of class e may end before its n-th line
MayEnd(e, n) == e = "any" \/ n > Len(WfHeader)

\* f.readline(): the next line, or "" at the end of the file (and from then on)
readline ==
    IF eof THEN {EofLine}
    ELSE Input(env, Len(file) + 1)
         \cup (IF MayEnd(env, Len(file) + 1) THEN {EofLine} ELSE {})

\* the file position after readline() returned l
Advance(l) ==
    /\ file' = IF l = EofLine THEN file ELSE Append(file, l)
    /\ eof' = (l = EofLine)

\* ------------------------------------------------------------------- time
\* int(ymd[0:4]), int(ymd[5:7]), int(ymd[8:10]) succeed
YmdIsNumeric(ymd) == ymd \in {"1980/01/06"}

\* int(hms[0:2]), int(hms[3:5]), float(hms[6:]) succeed
HmsIsNumeric(hms) == hms \in {"00:00:20.0", "00:00:21.0", "00:00:22.0", "00:00:23"}

\* the days from 1980-01-06 to the date
YmdDays(ymd) == 0

\* the seconds of the day
HmsSeconds(hms) ==
    CASE hms = "00:00:20.0" -> 20 [] hms = "00:00:21.0" -> 21
      [] hms = "00:00:22.0" -> 22 [] hms = "00:00:23" -> 23 [] OTHER -> 0

\* GPS week and seconds of week of a calendar time
ymdhms2wksow(days, secs) ==
    <<(days * 86400 + secs) \div 604800, (days * 86400 + secs) % 604800>>

strtime2gpstime(ymd, hms) == ymdhms2wksow(YmdDays(ymd), HmsSeconds(hms))

\* the string matches "%Y/%m/%d %H:%M:%S.%f" ("_" or " " between date and time)
MatchesFormat(ymd, hms) ==
    /\ ymd \in {"1980/01/06"}
    /\ hms \in {"00:00:20.0", "00:00:21.0", "00:00:22.0"}

\* pd.to_datetime of a matching string
to_datetime(ymd, hms) == YmdDays(ymd) * 86400 + HmsSeconds(hms)

\* str.lower() of a time-format tag
lower(tag) == CASE tag = "GPST" -> "gpst" [] tag = "UTC" -> "utc" [] OTHER -> tag

\* ele[7].replace("(week", ""), ele[8].replace(")", "")
replace(tok) ==
    CASE tok = "(week0" -> "0" [] tok = "20.0s)" -> "20.0s" [] tok = "22.0s)" -> "22.0s"
      [] OTHER -> tok

\* ------------------------------------------------------- read_RTKLIB_pos
POS == "read_RTKLIB_pos"
LINK == "read_stonex_link_file"
EXTRACT == "extract_point_from_trajectory"

XYZMessage == "Not support XYZ trajectory file yet"

\* the locals line 66 reads, in the order it reads them
MetadataNames ==
    <<"obs_start", "obs_end", "ref_pos", "type", "time_fmt", "gps_week", "gps_sow">>

\* the values of the header locals before any is bound (never read unbound)
InitLoc ==
    [obs_start |-> <<>>, obs_end |-> <<>>, ref_pos |-> <<>>, type |-> "",
     time_fmt |-> "", gps_week |-> "", gps_sow |-> ""]

NoFrame == [returned |-> FALSE, rows |-> <<>>, metadata |-> InitLoc]

\* an exception leaves the function
Raise(kind, arg) ==
    /\ result' = kind
    /\ exc_arg' = arg
    /\ pc' = "done"

\* lines 34-39: the two assertions, open, and the first readline
Open ==
    /\ call = POS /\ pc = "open"
    /\ \E exists \in BOOLEAN, is_pos \in BOOLEAN :
         IF ~exists \/ ~is_pos
         THEN /\ Raise("AssertionError",
                       IF ~exists THEN "Trajectory file does not exist."
                       ELSE "Trajectory file is not a .pos file.")
              /\ UNCHANGED <<file, eof, ln>>
         ELSE /\ \E l \in readline : ln' = l /\ Advance(l)
              /\ pc' = "header"
              /\ UNCHANGED <<result, exc_arg>>
    /\ UNCHANGED <<call, log, env, bound, loc, ep, data, df, linkVars, extVars>>

\* lines 44-63: the branch the header loop takes on the line just read
HeaderBranch_noXYZ(l) ==
    IF l = EofLine THEN "IndexError"
    ELSE IF l.c0 # "%" THEN "skip"
    ELSE IF "obs start" \in l.marks THEN "obs start"
    ELSE IF "obs end" \in l.marks THEN "obs end"
    ELSE IF "ref pos" \in l.marks THEN "ref pos"
    ELSE IF "latitude(deg)" \in l.marks THEN "LLH"
    ELSE "skip"

HeaderBranch(l) ==
    IF l = EofLine THEN "IndexError"                     \* ""[0]
    ELSE IF l.c0 # "%" THEN "skip"
    ELSE IF "obs start" \in l.marks THEN "obs start"
    ELSE IF "obs end" \in l.marks THEN "obs end"
    ELSE IF "ref pos" \in l.marks THEN "ref pos"
    ELSE IF "latitude(deg)" \in l.marks THEN "LLH"
    ELSE IF "x-ecef(m)" \in l.marks THEN "XYZ"
    ELSE "skip"

\* lines 42-63: one iteration of the header loop
HeaderLoop ==
    /\ call = POS /\ pc = "header"
    /\ ln # EofLine                                      \* while ln:
    /\ \E l \in readline :
         LET b == HeaderBranch(l)
             ele == l.ele
         IN
         /\ ln' = l /\ Advance(l)
         /\ CASE b = "IndexError" ->
                   /\ Raise("IndexError", "string index out of range")
                   /\ UNCHANGED <<bound, loc, log>>
              [] b = "obs start" ->
                   IF Len(ele) < 9
                   THEN /\ Raise("IndexError", "list index out of range")
                        /\ UNCHANGED <<bound, loc, log>>
                   ELSE /\ loc' = [loc EXCEPT !.obs_start = <<ele[5], ele[6]>>,
                                              !.time_fmt = ele[7],
                                              !.gps_week = replace(ele[8]),
                                              !.gps_sow = replace(ele[9])]
                        /\ bound' = bound \cup {"obs_start", "time_fmt", "gps_week", "gps_sow"}
                        /\ UNCHANGED <<pc, result, exc_arg, log>>
              [] b = "obs end" ->
                   IF Len(ele) < 6
                   THEN /\ Raise("IndexError", "list index out of range")
                        /\ UNCHANGED <<bound, loc, log>>
                   ELSE /\ loc' = [loc EXCEPT !.obs_end = <<ele[5], ele[6]>>]
                        /\ bound' = bound \cup {"obs_end"}
                        /\ UNCHANGED <<pc, result, exc_arg, log>>
              [] b = "ref pos" ->
                   IF \E x \in Range(Slice(ele, 4, 7)) : ~IsFloat(x)
                   THEN /\ Raise("ValueError", "could not convert string to float")
                        /\ UNCHANGED <<bound, loc, log>>
                   ELSE /\ loc' = [loc EXCEPT !.ref_pos =
                                      [k \in 1..Len(Slice(ele, 4, 7)) |-> float(Slice(ele, 4, 7)[k])]]
                        /\ bound' = bound \cup {"ref_pos"}
                        /\ UNCHANGED <<pc, result, exc_arg, log>>
              [] b = "LLH" ->
                   /\ loc' = [loc EXCEPT !.type = "LLH"]
                   /\ bound' = bound \cup {"type"}
                   /\ pc' = "line64"                     \* break
                   /\ UNCHANGED <<result, exc_arg, log>>
              [] b = "XYZ" ->
                   /\ loc' = [loc EXCEPT !.type = "XYZ"]
                   /\ bound' = bound \cup {"type"}
                   /\ log' = Append(log, XYZMessage)
                   /\ result' = "None" /\ pc' = "done"   \* return None
                   /\ UNCHANGED exc_arg
              [] OTHER ->
                   UNCHANGED <<pc, result, exc_arg, bound, loc, log>>
    /\ UNCHANGED <<call, env, ep, data, df, linkVars, extVars>>

\* line 42 on an empty file: the first readline returned "", the loop is not entered
HeaderExit ==
    /\ call = POS /\ pc = "header"
    /\ ln = EofLine
    /\ pc' = "line64"
    /\ UNCHANGED <<call, result, exc_arg, log, posVars, linkVars, extVars>>

\* line 66: every local the metadata dict reads is bound
MetadataComplete_defaults(b) == TRUE

MetadataComplete(b) == Range(MetadataNames) \subseteq b

\* the first local line 66 finds unbound
FirstUnbound(b) ==
    MetadataNames[CHOOSE k \in 1..Len(MetadataNames) :
                     /\ MetadataNames[k] \notin b
                     /\ \A j \in 1..(k - 1) : MetadataNames[j] \in b]

\* lines 64-70: the first body line is read, the metadata dict is built
AfterHeader ==
    /\ call = POS /\ pc = "line64"
    /\ \E l \in readline : ln' = l /\ Advance(l)
    /\ IF MetadataComplete(bound)
       THEN /\ pc' = "body"
            /\ ep' = 0
            /\ data' = <<>>
            /\ UNCHANGED <<result, exc_arg>>
       ELSE /\ Raise("UnboundLocalError", FirstUnbound(bound))
            /\ UNCHANGED <<ep, data>>
    /\ UNCHANGED <<call, log, env, bound, loc, df, linkVars, extVars>>

\* line 72: the line is neither a comment nor "\n"
BodySelected(l) == l.c0 # "%" /\ l.c0 # "\n"

\* a, b = [...]: the list has exactly two items
Unpacks2(xs) == Len(xs) = 2

\* lines 73-88: the exception the line raises, or "" when it raises none
\* (llh2xyz returns for any list of floats; a list of fewer than three, from a
\* line of fewer than five fields, fails at the unpacking of line 86)
RowError(ele) ==
    IF Len(ele) < 2 THEN "IndexError"                                \* ele[0], ele[1]
    ELSE IF ~YmdIsNumeric(ele[1]) \/ ~HmsIsNumeric(ele[2]) THEN "ValueError"
    ELSE IF \E x \in Range(Slice(ele, 2, 5)) : ~IsFloat(x) THEN "ValueError"
    ELSE IF \E x \in Range(Slice(ele, 5, 7)) : ~IsInt(x) THEN "ValueError"
    ELSE IF ~Unpacks2(Slice(ele, 5, 7)) THEN "ValueError"            \* Q, ns = ...
    ELSE IF \E x \in Range(Slice(ele, 7, 13)) : ~IsFloat(x) THEN "ValueError"
    ELSE IF \E x \in Range(Slice(ele, 13, 15)) : ~IsFloat(x) THEN "ValueError"
    ELSE IF ~Unpacks2(Slice(ele, 13, 15)) THEN "ValueError"          \* age, ratio = ...
    ELSE ""

Floats(xs) == [k \in 1..Len(xs) |-> float(xs[k])]

\* line 90: the row of a line that raised nothing (x, y, z are not kept)
Row(ele) ==
    [ymd |-> ele[1], hms |-> ele[2],
     week |-> strtime2gpstime(ele[1], ele[2])[1],
     sow |-> strtime2gpstime(ele[1], ele[2])[2],
     llh |-> Floats(Slice(ele, 2, 5)),
     Q |-> int(Slice(ele, 5, 7)[1]), ns |-> int(Slice(ele, 5, 7)[2]),
     stdev |-> Floats(Slice(ele, 7, 13)),
     age |-> float(Slice(ele, 13, 15)[1]), ratio |-> float(Slice(ele, 13, 15)[2])]

\* d[k] = v
DictSet(d, k, v) == [x \in (DOMAIN d) \cup {k} |-> IF x = k THEN v ELSE d[x]]

\* line 92: ep += 1
NextEp_same(e) == e

NextEp(e) == e + 1

\* lines 71-93: one iteration of the body loop
BodyLoop ==
    /\ call = POS /\ pc = "body"
    /\ ln # EofLine                                      \* while ln:
    /\ IF BodySelected(ln) /\ RowError(ln.ele) # ""
       THEN /\ Raise(RowError(ln.ele), "")
            /\ UNCHANGED <<ep, data, ln, file, eof>>
       ELSE /\ IF BodySelected(ln)
               THEN /\ data' = DictSet(data, ep, Row(ln.ele))
                    /\ ep' = NextEp(ep)
               ELSE UNCHANGED <<ep, data>>
            /\ \E l \in readline : ln' = l /\ Advance(l)   \* line 93
            /\ UNCHANGED <<pc, result, exc_arg>>
    /\ UNCHANGED <<call, log, env, bound, loc, df, linkVars, extVars>>

\* the k-th key of the dict (keys are inserted in increasing order)
KeyAt(d, k) == CHOOSE x \in DOMAIN d : Cardinality({y \in DOMAIN d : y < x}) = k - 1

\* line 99: DataFrame.from_dict(data, orient='index'); line 101: the datetime column
Frame(d) ==
    [k \in 1..Cardinality(DOMAIN d) |->
        [index |-> KeyAt(d, k), row |-> d[KeyAt(d, k)],
         datetime |-> to_datetime(d[KeyAt(d, k)].ymd, d[KeyAt(d, k)].hms)]]

\* line 105: the datetime column, parsed as UTC, minus the leap seconds
WithUTC(rows) ==
    [k \in 1..Len(rows) |->
        [index |-> rows[k].index, row |-> rows[k].row, datetime |-> rows[k].datetime,
         datetime_UTC |-> rows[k].datetime - LeapSeconds]]

\* lines 95-113: the loop has ended; the frame is built and returned
\* (datetime_ROME is datetime_UTC in another zone: the same instants)
Build ==
    /\ call = POS /\ pc = "body"
    /\ ln = EofLine
    /\ IF \E k \in DOMAIN data : ~MatchesFormat(data[k].ymd, data[k].hms)
       THEN /\ Raise("ValueError", "time data does not match format")      \* line 101
            /\ UNCHANGED df
       ELSE IF lower(loc.time_fmt) = "gpst"                                \* line 104
       THEN /\ df' = [returned |-> TRUE, rows |-> WithUTC(Frame(data)), metadata |-> loc]
            /\ result' = "ok" /\ pc' = "done"
            /\ UNCHANGED exc_arg
       ELSE /\ Raise("KeyError", "datetime_UTC")                           \* line 108
            /\ UNCHANGED df
    /\ UNCHANGED <<call, log, env, file, eof, ln, bound, loc, ep, data, linkVars, extVars>>

\* -------------------------------------------------- read_stonex_link_file
\* a timestamp field of the link file matches "%Y/%m/%d %H:%M:%S.%f"
LinkMatchesFormat(tok) == tok \in {"1980/01/06 00:00:20.0", "1980/01/06 00:00:22.0"}

\* pd.to_datetime of a matching field
link_to_datetime(tok) ==
    CASE tok = "1980/01/06 00:00:20.0" -> 20 [] tok = "1980/01/06 00:00:22.0" -> 22
      [] OTHER -> 0

\* the text of the fields no position of interest falls on, by position
Filler == <<"f0", "f1", "f2", "f3", "f4", "f5", "f6", "f7", "f8", "f9", "f10", "f11", "f12",
            "f13", "f14", "f15">>

\* line.split(sep) of a line of n fields: name in the third field, antenna height
\* in the tenth, start and end in the third and second from the end
LinkLine(n, name, start) ==
    [j \in 1..n |->
        IF j = n - 1 THEN "1980/01/06 00:00:22.0"
        ELSE IF j = n - 2 THEN start
        ELSE IF j = 3 THEN name
        ELSE IF j = 10 THEN "1.8"
        ELSE Filler[j]]

FieldCounts == {1, 3, 9} \cup (10..MaxFields)

LinkLines ==
    {LinkLine(n, name, start) :
        n \in FieldCounts, name \in {"P1", "P2"}, start \in {"1980/01/06 00:00:20.0", "n/a"}}

LinkFiles == UNION {[1..n -> LinkLines] : n \in 0..MaxLinkLines}

\* xs[k] raises IndexError
IndexFails(xs, k) == IF k >= 0 THEN k >= Len(xs) ELSE -k > Len(xs)

\* xs[k], k counted from 0, or from the end when negative
PyIndex_shifted(xs, k) == IF k >= 0 THEN xs[k + 1] ELSE xs[Len(xs) + k]

PyIndex(xs, k) == IF k >= 0 THEN xs[k + 1] ELSE xs[Len(xs) + k + 1]

\* lines 116-120: the assertion, and f.readlines()
ReadLines ==
    /\ call = LINK /\ pc = "open"
    /\ \E exists \in BOOLEAN :
         IF ~exists
         THEN /\ Raise("AssertionError", "Trajectory file does not exist.")
              /\ UNCHANGED <<lines, li, ldata>>
         ELSE /\ \E fl \in LinkFiles : lines' = fl
              /\ li' = 0
              /\ ldata' = <<>>
              /\ pc' = "loop"
              /\ UNCHANGED <<result, exc_arg>>
    /\ UNCHANGED <<call, log, posVars, link_df, extVars>>

\* lines 123-129: one iteration of the loop over the lines
LinkLoop ==
    /\ call = LINK /\ pc = "loop"
    /\ li < Len(lines)
    /\ LET l == lines[li + 1] IN
       IF \E k \in {2, 9, -3, -2} : IndexFails(l, k)
       THEN /\ Raise("IndexError", "list index out of range")
            /\ UNCHANGED <<li, ldata>>
       ELSE /\ ldata' = DictSet(ldata, li,
                            [point |-> PyIndex(l, 2), h_ant |-> PyIndex(l, 9),
                             start |-> PyIndex(l, -3), end |-> PyIndex(l, -2)])
            /\ li' = li + 1
            /\ UNCHANGED <<pc, result, exc_arg>>
    /\ UNCHANGED <<call, log, posVars, lines, link_df, extVars>>

\* lines 136-140: the frame with its start_UTC and end_UTC columns
LinkFrame(d) ==
    [k \in 1..Cardinality(DOMAIN d) |->
        [index |-> KeyAt(d, k),
         point |-> d[KeyAt(d, k)].point, h_ant |-> d[KeyAt(d, k)].h_ant,
         start |-> d[KeyAt(d, k)].start, end |-> d[KeyAt(d, k)].end,
         start_UTC |-> link_to_datetime(d[KeyAt(d, k)].start) - LeapSeconds,
         end_UTC |-> link_to_datetime(d[KeyAt(d, k)].end) - LeapSeconds]]

\* lines 131-142: the loop has ended; the frame is built and returned
LinkBuild ==
    /\ call = LINK /\ pc = "loop"
    /\ li = Len(lines)
    /\ IF \E k \in DOMAIN ldata :
            ~LinkMatchesFormat(ldata[k].start) \/ ~LinkMatchesFormat(ldata[k].end)
       THEN /\ Raise("ValueError", "time data does not match format")
            /\ UNCHANGED link_df
       ELSE /\ link_df' = LinkFrame(ldata)
            /\ result' = "ok" /\ pc' = "done"
            /\ UNCHANGED exc_arg
    /\ UNCHANGED <<call, log, posVars, lines, li, ldata, extVars>>

\* ------------------------------------------- extract_point_from_trajectory
\* a trajectory of n epochs one second apart, with the quality codes qs
Trajectory(n, qs) == [k \in 1..n |-> [datetime_UTC |-> k, Q |-> qs[k], lat |-> 60 * k]]

Trajectories == UNION {{Trajectory(n, qs) : qs \in [1..n -> {1, 2}]} : n \in 0..MaxTraj}

Entries ==
    {[point |-> p, start_UTC |-> w[1], end_UTC |-> w[2]] :
        p \in {"P1", "P2"}, w \in {<<2, 3>>, <<1, 3>>, <<9, 9>>}}

PointTables == UNION {[1..n -> Entries] : n \in 0..MaxPoints}

Undefined == [defined |-> FALSE, point |-> <<>>]

\* the values of the module global stonex: not set (the module is imported), the
\* table passed as points (the module is run as a script), or another table
Globals(pts) ==
    {Undefined, [defined |-> TRUE, point |-> [k \in 1..Len(pts) |-> pts[k].point]]}
    \cup {[defined |-> TRUE, point |-> [k \in 1..n |-> "P1"]] : n \in 0..MaxPoints}

\* line 153: the rows of the trajectory inside the window
InWindow_open(t, start, end) == t > start /\ t < end

InWindow(t, start, end) == t >= start /\ t <= end

\* lines 153-157: the indices of the rows of track
Track(traj, start, end, fixed) ==
    {k \in 1..Len(traj) :
        /\ InWindow(traj[k].datetime_UTC, start, end)
        /\ (fixed => traj[k].Q = 1)}

RECURSIVE Sum(_, _)
Sum(traj, ks) ==
    IF ks = {} THEN 0
    ELSE LET k == CHOOSE x \in ks : TRUE IN traj[k].lat + Sum(traj, ks \ {k})

\* lines 147-148: the loop is set up over the global stonex
Enter ==
    /\ call = EXTRACT /\ pc = "open"
    /\ IF ~stonex.defined
       THEN /\ Raise("NameError", "stonex")
            /\ UNCHANGED <<xi, out>>
       ELSE /\ xi' = 0
            /\ out' = <<>>
            /\ pc' = "loop"
            /\ UNCHANGED <<result, exc_arg>>
    /\ UNCHANGED <<call, log, posVars, linkVars, trajectory, points, only_fixed, stonex>>

\* lines 148-168: one iteration of the loop (the standard deviations are not kept)
ExtractLoop ==
    /\ call = EXTRACT /\ pc = "loop"
    /\ xi < Len(stonex.point)
    /\ IF xi >= Len(points)
       THEN /\ Raise("KeyError", "points[\"point\"][i]")                    \* line 149
            /\ UNCHANGED <<xi, out, log>>
       ELSE LET e == points[xi + 1]
                track == Track(trajectory, e.start_UTC, e.end_UTC, only_fixed)
            IN
            IF track = {}
            THEN /\ log' = Append(log, e.point)                              \* line 161
                 /\ Raise("ValueError", e.point)                             \* line 162
                 /\ UNCHANGED <<xi, out>>
            ELSE /\ out' = DictSet(out, xi,
                              [point |-> e.point,
                               lat |-> Sum(trajectory, track) \div Cardinality(track),
                               start |-> e.start_UTC, end |-> e.end_UTC,
                               num_obs |-> Cardinality(track)])
                 /\ xi' = xi + 1
                 /\ UNCHANGED <<pc, result, exc_arg, log>>
    /\ UNCHANGED <<call, posVars, linkVars, trajectory, points, only_fixed, stonex>>

\* lines 170-173: the loop has ended; out is returned as a frame
Return ==
    /\ call = EXTRACT /\ pc = "loop"
    /\ xi = Len(stonex.point)
    /\ result' = "ok" /\ pc' = "done"
    /\ UNCHANGED <<call, exc_arg, log, posVars, linkVars, extVars>>

\* ------------------------------------------------------------ specification
Idle ==
    /\ pc = "open" /\ result = "running" /\ exc_arg = "" /\ log = <<>>
    /\ file = <<>> /\ eof = FALSE /\ ln = EofLine /\ bound = {} /\ loc = InitLoc
    /\ ep = 0 /\ data = <<>> /\ df = NoFrame
    /\ lines = <<>> /\ li = 0 /\ ldata = <<>> /\ link_df = <<>>
    /\ xi = 0 /\ out = <<>>

NoArguments ==
    /\ trajectory = <<>> /\ points = <<>> /\ only_fixed = TRUE /\ stonex = Undefined

\* a call of one of the three functions, on any of its inputs
Init ==
    /\ Idle
    /\ \/ call = POS /\ env \in {"any", "wf"} /\ NoArguments
       \/ call = LINK /\ env = "any" /\ NoArguments
       \/ /\ call = EXTRACT /\ env = "any"
          /\ trajectory \in Trajectories
          /\ points \in PointTables
          /\ only_fixed \in BOOLEAN
          /\ stonex \in Globals(points)

Next ==
    \/ Open \/ HeaderLoop \/ HeaderExit \/ AfterHeader \/ BodyLoop \/ Build
    \/ ReadLines \/ LinkLoop \/ LinkBuild
    \/ Enter \/ ExtractLoop \/ Return

Spec == Init /\ [][Next]_vars

\* ================================================================== claims
Errors ==
    {"AssertionError", "IndexError", "ValueError", "KeyError", "UnboundLocalError", "NameError"}

MetadataMarks == {"obs start", "obs end", "ref pos"}

\* a '%' line that carries the XYZ column marker and no other marker
XYZMarkerLine(l) == l.c0 = "%" /\ l.marks = {"x-ecef(m)"}

\* a '%' line that carries the LLH column marker and no metadata marker
LLHMarkerLine(l) ==
    l.c0 = "%" /\ "latitude(deg)" \in l.marks /\ l.marks \cap MetadataMarks = {}

\* a line the header loop passes over or takes metadata from, without an error
PassableHeaderLine(l) ==
    \/ l.c0 # "%"
    \/ /\ "obs start" \in l.marks
       /\ Len(l.ele) >= 9
    \/ /\ "obs start" \notin l.marks /\ "obs end" \in l.marks
       /\ Len(l.ele) >= 6
    \/ /\ l.marks \cap {"obs start", "obs end"} = {} /\ "ref pos" \in l.marks
       /\ \A k \in 5..Min(7, Len(l.ele)) : l.ele[k] \in {"1", "2", "5", "1.0", "45.5", "0.5"}
    \/ l.marks \cap (MetadataMarks \cup {"latitude(deg)", "x-ecef(m)"}) = {}

MarkerIndex(f) ==
    IF \E k \in 1..Len(f) : "latitude(deg)" \in f[k].marks
    THEN CHOOSE k \in 1..Len(f) :
            /\ "latitude(deg)" \in f[k].marks
            /\ \A j \in 1..(k - 1) : "latitude(deg)" \notin f[j].marks
    ELSE 0

\* a header of '%' lines that ends with the LLH marker line, which is not the
\* first line of the file, and carries no XYZ marker
WellFormedHeader(f) ==
    LET m == MarkerIndex(f) IN
    /\ m >= 2
    /\ \A k \in 1..m : f[k].c0 = "%"
    /\ f[m].marks = {"latitude(deg)"}
    /\ \A k \in 1..m : "x-ecef(m)" \notin f[k].marks

IsComment(l) == l.c0 = "%"
IsBlank(l) == l.ele = <<>>

\* the non-comment, non-blank lines after the marker line, in file order
BodyRecords(f) ==
    SelectSeq(SubSeq(f, MarkerIndex(f) + 1, Len(f)), LAMBDA l : ~IsComment(l) /\ ~IsBlank(l))

\* a body line with the 15 fields of the format, in the format
ValidDataLine(l) ==
    /\ Len(l.ele) = 15
    /\ l.ele[1] = "1980/01/06"
    /\ l.ele[2] \in {"00:00:20.0", "00:00:21.0", "00:00:22.0"}
    /\ \A k \in {3, 4, 5} \cup (8..15) : l.ele[k] \in {"1", "2", "5", "1.0", "45.5", "0.5"}
    /\ \A k \in {6, 7} : l.ele[k] \in {"1", "2", "5"}

\* the time formats the 'obs start' lines of the header declare
DeclaredFormats(f) ==
    {f[k].ele[7] : k \in {j \in 2..(MarkerIndex(f) - 1) :
                              "obs start" \in f[j].marks /\ Len(f[j].ele) >= 9}}

\* a well-formed LLH log: a well-formed header with its three metadata lines,
\* each complete, and a body of comments, empty lines and valid data lines
WellFormedLog(f) ==
    LET m == MarkerIndex(f) IN
    /\ WellFormedHeader(f)
    /\ \A k \in 2..(m - 1) : PassableHeaderLine(f[k])
    /\ \A mark \in MetadataMarks : \E k \in 2..(m - 1) : f[k].marks = {mark}
    /\ \A k \in (m + 1)..Len(f) : IsComment(f[k]) \/ f[k].c0 = "\n" \/ ValidDataLine(f[k])

\* C2: on a log with a well-formed header, a returned trajectory has exactly one
\* record per non-comment, non-blank body line, record k (index k, from 0,
\* contiguous) built from the k-th such line; and a well-formed log that
\* declares GPST, read to its end, does return one.
C2_OneRecordPerBodyLine ==
    (call = POS /\ WellFormedHeader(file)) =>
        /\ result = "ok" =>
             /\ Len(df.rows) = Len(BodyRecords(file))
             /\ \A k \in 1..Len(df.rows) :
                  /\ df.rows[k].index = k - 1
                  /\ df.rows[k].row.ymd = BodyRecords(file)[k].ele[1]
                  /\ df.rows[k].row.hms = BodyRecords(file)[k].ele[2]
                  /\ df.rows[k].row.llh[1] = float(BodyRecords(file)[k].ele[3])
                  /\ df.rows[k].row.Q = int(BodyRecords(file)[k].ele[6])
        /\ (pc = "done" /\ WellFormedLog(file) /\ DeclaredFormats(file) = {"GPST"})
             => result = "ok"

C2_Witness ==
    /\ call = POS /\ result = "ok" /\ WellFormedLog(file)
    /\ Len(df.rows) = 2
    /\ df.rows[1].row # df.rows[2].row
    /\ Len(file) > MarkerIndex(file) + 2

\* C3: the parse of a well-formed LLH log succeeds for either declared time
\* format, and every record's UTC timestamp is the declared timestamp minus 18
\* seconds when the header declares GPST, and the declared timestamp itself
\* when it declares UTC.
C3_EitherTimeFormat ==
    (/\ call = POS /\ pc = "done" /\ WellFormedLog(file)
     /\ DeclaredFormats(file) \in {{"GPST"}, {"UTC"}})
    => /\ result = "ok"
       /\ \A k \in 1..Len(df.rows) :
            df.rows[k].datetime_UTC =
                df.rows[k].datetime - (IF DeclaredFormats(file) = {"GPST"} THEN 18 ELSE 0)

\* the index of the line the header loop leaves at: the first LLH marker line
\* after the first line of the file (0 when the file has none)
BodyStart(f) ==
    IF \E k \in 2..Len(f) : LLHMarkerLine(f[k])
    THEN CHOOSE k \in 2..Len(f) :
            LLHMarkerLine(f[k]) /\ \A j \in 2..(k - 1) : ~LLHMarkerLine(f[j])
    ELSE 0

\* a non-numeric value in one of the first n fields of a data line
NonNumeric(l, n) ==
    \/ Len(l.ele) >= 1 /\ n >= 1 /\ l.ele[1] # "1980/01/06"
    \/ Len(l.ele) >= 2 /\ n >= 2
       /\ l.ele[2] \notin {"00:00:20.0", "00:00:21.0", "00:00:22.0", "00:00:23"}
    \/ \E k \in ({3, 4, 5} \cup (8..15)) \cap (1..Min(n, Len(l.ele))) :
         l.ele[k] \notin {"1", "2", "5", "1.0", "45.5", "0.5"}
    \/ \E k \in {6, 7} \cap (1..Min(n, Len(l.ele))) : l.ele[k] \notin {"1", "2", "5"}

Selected(e) ==
    {k \in 1..Len(trajectory) :
        /\ e.start_UTC <= trajectory[k].datetime_UTC
        /\ trajectory[k].datetime_UTC <= e.end_UTC
        /\ (only_fixed => trajectory[k].Q = 1)}

\* C5: when no window is empty, the result has exactly one summary per entry of
\* the points argument, summary i carrying the name, start and end of entry i,
\* whatever the state outside the two arguments.
C5_OneSummaryPerEntry ==
    (/\ call = EXTRACT /\ pc = "done"
     /\ \A i \in 1..Len(points) : Selected(points[i]) # {})
    => /\ result = "ok"
       /\ DOMAIN out = 0..(Len(points) - 1)
       /\ \A i \in 1..Len(points) :
            /\ out[i - 1].point = points[i].point
            /\ out[i - 1].start = points[i].start_UTC
            /\ out[i - 1].end = points[i].end_UTC

\* C6: every summary is computed from exactly the rows its entry selects (UTC
\* timestamp t with start_UTC <= t <= end_UTC, and Q = 1 when only_fixed):
\* num_obs is their number and lat their mean; and the no-data error is raised
\* only for an entry that selects none.
C6_ClosedWindowCount ==
    call = EXTRACT =>
        /\ \A i \in DOMAIN out :
             /\ i + 1 \in 1..Len(points)
             /\ out[i].num_obs = Cardinality(Selected(points[i + 1]))
             /\ out[i].num_obs * out[i].lat = Sum(trajectory, Selected(points[i + 1]))
        /\ result = "ValueError" => Selected(points[xi + 1]) = {}

\* three epochs one second apart with Q = 1 and a window on epochs 2 and 3
C6_Witness ==
    /\ call = EXTRACT /\ result = "ok" /\ only_fixed
    /\ Len(trajectory) = 3 /\ \A k \in 1..3 : trajectory[k].Q = 1
    /\ Len(points) >= 1
    /\ points[1].start_UTC = trajectory[2].datetime_UTC
    /\ points[1].end_UTC = trajectory[3].datetime_UTC
    /\ 0 \in DOMAIN out /\ out[0].num_obs = 2

\* C7: when some entry selects no row, the call raises the no-data error naming
\* the first such entry, and returns no table.
C7_EmptyWindowRaises ==
    (/\ call = EXTRACT /\ pc = "done"
     /\ \E i \in 1..Len(points) : Selected(points[i]) = {})
    => LET first == CHOOSE i \in 1..Len(points) :
                       /\ Selected(points[i]) = {}
                       /\ \A j \in 1..(i - 1) : Selected(points[j]) # {}
       IN /\ result = "ValueError"
          /\ exc_arg = points[first].point
          /\ log = <<points[first].point>>

\* C8: the header loop stops at the first LLH or XYZ marker line or at the end
\* of the header: while it runs, no line it has consumed is a marker line or a
\* line that is not a '%' line, and it never reads past the end of the file.
C8_HeaderLoopStops ==
    call = POS =>
        /\ pc = "header" =>
             \A k \in 2..Len(file) :
                 /\ ~LLHMarkerLine(file[k]) /\ ~XYZMarkerLine(file[k])
                 /\ file[k].c0 = "%"
        /\ ~(eof /\ result = "IndexError" /\ exc_arg = "string index out of range")

\* C9: the parse keeps one entry per line, in file order, entry i holding the
\* fields of line i at index 2, at index 9, third from last and second from
\* last; and a line with fewer than ten fields fails the whole parse.
C9_FixedPositions ==
    call = LINK =>
        /\ \A k \in DOMAIN ldata :
             LET l == lines[k + 1] IN
             /\ k + 1 <= li
             /\ ldata[k].point = l[3]
             /\ ldata[k].h_ant = l[10]
             /\ ldata[k].start = l[Len(l) - 2]
             /\ ldata[k].end = l[Len(l) - 1]
        /\ result = "ok" =>
             /\ Len(link_df) = Len(lines)
             /\ \A i \in 1..Len(lines) :
                  /\ link_df[i].index = i - 1
                  /\ link_df[i].point = ldata[i - 1].point
                  /\ link_df[i].h_ant = ldata[i - 1].h_ant
                  /\ link_df[i].start = ldata[i - 1].start
                  /\ link_df[i].end = ldata[i - 1].end
        /\ (pc = "done" /\ result # "AssertionError"
            /\ \E i \in 1..Len(lines) : Len(lines[i]) < 10)
             => result = "IndexError" /\ link_df = <<>>

C9_Witness ==
    /\ call = LINK /\ result = "ok"
    /\ Len(link_df) = 2
    /\ link_df[1].point # link_df[2].point
    /\ Len(lines[1]) # Len(lines[2])

\* C10: a (trajectory, metadata) result is returned only if 'obs start', 'obs
\* end' and 'ref pos' lines were all seen after the first line of the file and
\* before the 'latitude(deg)' marker line, and the metadata holds their values.
C10_MetadataFromHeader ==
    (call = POS /\ result = "ok") =>
        \E m \in 2..Len(file) :
            /\ LLHMarkerLine(file[m])
            /\ \E k \in 2..(m - 1) :
                 /\ file[k].c0 = "%" /\ "obs start" \in file[k].marks
                 /\ df.metadata.obs_start = <<file[k].ele[5], file[k].ele[6]>>
                 /\ df.metadata.time_fmt = file[k].ele[7]
            /\ \E k \in 2..(m - 1) :
                 /\ file[k].c0 = "%" /\ "obs end" \in file[k].marks
                 /\ df.metadata.obs_end = <<file[k].ele[5], file[k].ele[6]>>
            /\ \E k \in 2..(m - 1) :
                 /\ file[k].c0 = "%" /\ "ref pos" \in file[k].marks
                 /\ Len(df.metadata.ref_pos) = 3
            /\ df.metadata.type = "LLH"

\* a result is returned from a file whose first line is itself a metadata line
C10_Witness ==
    /\ call = POS /\ result = "ok"
    /\ "obs start" \in file[1].marks
    /\ df.metadata.obs_start # <<>>

====
